---- MODULE Spec2Model ----
(***************************************************************************)
(* DATAFORGE: the Streamlit page dataforge_ui.py and the dataforge core    *)
(* it calls (data_loader.load_csv and the helpers of eda_utils).           *)
(*                                                                         *)
(* Three specifications share the variables:                               *)
(*   Spec          the page, one session: the script run top to bottom on  *)
(*                 every user action, with every widget value;             *)
(*   SpecSessions  two sessions over the one working directory             *)
(*                 (sample_data.csv, ./temp_upload), widgets at defaults;  *)
(*   SpecCore      the core's functions applied to bounded CSV inputs.     *)
(* A run is taken to completion before the next user action starts one.    *)
(***************************************************************************)
EXTENDS Integers, Sequences, FiniteSets

VARIABLES
    \* ---- the page (st.session_state, per session) ----
    df_full,              \* session_state.df_full: NoneVal or a table
    X,                    \* session_state.X
    y,                    \* session_state.y
    file_name,            \* session_state.file_name
    pipeline_configured,  \* session_state.pipeline_configured
    \* ---- the page's environment ----
    uploaded_file,        \* the file_uploader widget's value, per session
    fs,                   \* the working directory: path -> Absent or bytes
    \* ---- control and what a step of the script did ----
    pc,                   \* each session's position in the script
    data_path,            \* the script's local data_path, per session
    ev,                   \* what the session's last step called and showed
    \* ---- history (no influence on the program) ----
    trigger,              \* what started the session's current run
    start,                \* session_state as it was when the run started
    loaded,               \* the table load_csv last returned to the session
    \* ---- the core, applied to drawn inputs (SpecCore) ----
    core_in,              \* [csv, target]: the file's bytes and target_column
    core_out              \* the result of the call applied to core_in

pageVars == <<df_full, X, y, file_name, pipeline_configured, uploaded_file, fs,
              pc, data_path, ev, trigger, start, loaded>>
coreVars == <<core_in, core_out>>
vars == <<pageVars, coreVars>>

----------------------------------------------------------------------------
(* Bounds of the drawn CSV inputs of SpecCore.                             *)
MaxCols == 2
MaxRows == 2

(* Python's None; a record so that it compares with tables and records.    *)
NoneVal == [none |-> TRUE]

(* pandas' missing value (NaN) as a table cell.                            *)
NA == "<NA>"

RECURSIVE SumSeq(_)
SumSeq(q) == IF q = <<>> THEN 0 ELSE Head(q) + SumSeq(Tail(q))

IndexOf(q, e) == CHOOSE i \in 1..Len(q) : q[i] = e

InSeq(q, e) == \E i \in 1..Len(q) : q[i] = e

(* q without its i-th element, the others in order.                        *)
Without(q, i) == [j \in 1..(Len(q) - 1) |-> IF j < i THEN q[j] ELSE q[j + 1]]

----------------------------------------------------------------------------
(* TabularLoader (dataforge.data_loader.load_csv).  A file's bytes are its *)
(* lines, each a sequence of fields; the first line is the header.         *)

ParseField(f) == IF f = "" THEN NA ELSE f

(* An empty file, or a line with more fields than the header: not          *)
(* parseable.                                                              *)
Malformed(bytes) ==
    \/ Len(bytes) = 0
    \/ \E i \in 2..Len(bytes) : Len(bytes[i]) > Len(bytes[1])

(* The table of well-formed bytes: the header names the columns, an empty  *)
(* field is a missing value, a short line is padded with missing values.   *)
ParseCSV(bytes) ==
    [columns |-> bytes[1],
     rows    |-> [i \in 1..(Len(bytes) - 1) |->
                    [j \in 1..Len(bytes[1]) |->
                        IF j <= Len(bytes[i + 1])
                        THEN ParseField(bytes[i + 1][j]) ELSE NA]]]

(* Mutant of TakeColumn: the target's rows in reverse order.               *)
TakeColumnReversed(t, c) ==
    LET k == CHOOSE i \in 1..Len(t.columns) : t.columns[i] = c
    IN  [columns |-> <<c>>,
         rows    |-> [i \in 1..Len(t.rows) |-> <<t.rows[Len(t.rows) + 1 - i][k]>>]]

(* The table with column c removed, the others in their order.             *)
DropColumn(t, c) ==
    LET k == IndexOf(t.columns, c)
    IN  [columns |-> Without(t.columns, k),
         rows    |-> [i \in 1..Len(t.rows) |-> Without(t.rows[i], k)]]

(* Column c alone, row-aligned with the table.                             *)
TakeColumn(t, c) ==
    LET k == IndexOf(t.columns, c)
    IN  [columns |-> <<c>>,
         rows    |-> [i \in 1..Len(t.rows) |-> <<t.rows[i][k]>>]]

NoTarget == "<no target>"

(* Mutant of load_csv: an unknown target_column is ignored and the full    *)
(* table returned.                                                         *)
load_csv_lenient(bytes, target_column) ==
    IF Malformed(bytes)
    THEN [status |-> "LoadError", features |-> NoneVal, target |-> NoneVal]
    ELSE LET t == ParseCSV(bytes)
         IN  IF target_column = NoTarget \/ ~InSeq(t.columns, target_column)
             THEN [status |-> "ok", features |-> t, target |-> NoneVal]
             ELSE [status |-> "ok",
                   features |-> DropColumn(t, target_column),
                   target   |-> TakeColumn(t, target_column)]

(* load(path, target_column): the outcome with both halves of the result;  *)
(* a failure carries neither.                                              *)
load_csv(bytes, target_column) ==
    IF Malformed(bytes)
    THEN [status |-> "LoadError", features |-> NoneVal, target |-> NoneVal]
    ELSE LET t == ParseCSV(bytes)
         IN  IF target_column = NoTarget
             THEN [status |-> "ok", features |-> t, target |-> NoneVal]
             ELSE IF ~InSeq(t.columns, target_column)
             THEN [status |-> "ColumnNotFoundError",
                   features |-> NoneVal, target |-> NoneVal]
             ELSE [status |-> "ok",
                   features |-> DropColumn(t, target_column),
                   target   |-> TakeColumn(t, target_column)]

----------------------------------------------------------------------------
(* ColumnProfiler (eda_utils.get_column_info, get_data_quality_report).    *)

Column(t, k) == [i \in 1..Len(t.rows) |-> t.rows[i][k]]

MissingIn(q) == Cardinality({i \in 1..Len(q) : q[i] = NA})

DistinctIn(q) == Cardinality({q[i] : i \in 1..Len(q)} \ {NA})

(* "numeric" when every non-missing value parses as a number and there is  *)
(* one; otherwise text.                                                    *)
Numerals == {"1", "2"}
IsNumeric(q) ==
    /\ \E i \in 1..Len(q) : q[i] # NA
    /\ \A i \in 1..Len(q) : q[i] = NA \/ q[i] \in Numerals

(* One ColumnProfile per column, in column order.                          *)
get_column_info(t) ==
    [k \in 1..Len(t.columns) |->
        [name           |-> t.columns[k],
         type           |-> IF IsNumeric(Column(t, k)) THEN "numeric" ELSE "text",
         missing_count  |-> MissingIn(Column(t, k)),
         distinct_count |-> DistinctIn(Column(t, k))]]

(* The rows that repeat an earlier row.                                    *)
DuplicateRows(t) ==
    Cardinality({i \in 1..Len(t.rows) : \E j \in 1..(i - 1) : t.rows[j] = t.rows[i]})

(* Mutant of get_data_quality_report: the rows with a missing cell are     *)
(* counted instead of the missing cells.                                   *)
quality_report_by_rows(t) ==
    [total_rows           |-> Len(t.rows),
     total_missing        |-> Cardinality({i \in 1..Len(t.rows) : MissingIn(t.rows[i]) > 0}),
     duplicate_row_count  |-> DuplicateRows(t)]

(* The QualityReport: the missing cells are counted over the whole table,  *)
(* row by row.                                                             *)
get_data_quality_report(t) ==
    [total_rows           |-> Len(t.rows),
     total_missing        |-> SumSeq([i \in 1..Len(t.rows) |-> MissingIn(t.rows[i])]),
     duplicate_row_count  |-> DuplicateRows(t)]

----------------------------------------------------------------------------
(* DistributionPlotter (the plot functions of eda_utils): a Plot Artifact,  *)
(* or the not-renderable sentinel (None).                                  *)

NoHue == "<None>"          \* Python's None as the hue argument

NumericColumn(t, c) == InSeq(t.columns, c) /\ IsNumeric(Column(t, IndexOf(t.columns, c)))

HasValues(t, c) ==
    /\ InSeq(t.columns, c)
    /\ \E i \in 1..Len(t.rows) : t.rows[i][IndexOf(t.columns, c)] # NA

plot_univariate_distribution(t, col, hue) ==
    IF HasValues(t, col)
    THEN [fig |-> "univariate", x |-> col, y |-> col, kind |-> "dist", hue |-> hue]
    ELSE NoneVal

plot_correlation_matrix(t) ==
    IF Cardinality({k \in 1..Len(t.columns) : IsNumeric(Column(t, k))}) >= 2
    THEN [fig |-> "correlation", x |-> "", y |-> "", kind |-> "heatmap", hue |-> NoHue]
    ELSE NoneVal

(* scatter: both columns numeric; boxplot and violin: y numeric over a     *)
(* categorical x.                                                          *)
plot_bivariate_analysis(t, x_col, y_col, kind, hue) ==
    IF /\ InSeq(t.columns, x_col) /\ InSeq(t.columns, y_col)
       /\ NumericColumn(t, y_col)
       /\ (kind = "scatter") = NumericColumn(t, x_col)
    THEN [fig |-> "bivariate", x |-> x_col, y |-> y_col, kind |-> kind, hue |-> hue]
    ELSE NoneVal

----------------------------------------------------------------------------
(* The page's world: sessions, the files a user may upload, the working    *)
(* directory.                                                              *)

Sessions == {"s1", "s2"}

SampleName == "sample_data.csv"
SamplePath == <<".", SampleName>>
UploadNames == {"a.csv", SampleName}
TempPath(name) == <<"temp_upload", name>>
Paths == {SamplePath} \cup {TempPath(n) : n \in UploadNames}
NoPath == <<"", "">>

(* File contents: lines of fields.                                         *)
CsvS == << <<"a", "b">>, <<"1", "2">> >>
CsvA == << <<"a", "b">>, <<"1", "x">>, <<"2", "y">>, <<"", "x">> >>
CsvN == << <<"None", "n", "e">>, <<"1", "2", "">>, <<"2", "1", "">> >>
CsvEmpty == << >>
UploadBytes == {CsvA, CsvN, CsvEmpty}

Absent == [exists |-> FALSE, bytes |-> <<>>]
File(bytes) == [exists |-> TRUE, bytes |-> bytes]

(* st.selectbox over options: the chosen position; 0 (Python's None) only  *)
(* when there are no options.                                              *)
Choices(options) == IF options = <<>> THEN {0} ELSE 1..Len(options)
NoSelection == "<no selection>"
Selected(options, i) == IF i = 0 THEN NoSelection ELSE options[i]
Truthy(str) == str # NoSelection /\ str # ""

SliderMin == 1
SliderMax == 10
SliderDefault == 5
PlotTypes == <<"scatter", "boxplot", "violin">>

Snapshot(s) ==
    [df_full |-> df_full[s], X |-> X[s], y |-> y[s], file_name |-> file_name[s],
     pipeline_configured |-> pipeline_configured[s]]

NoFig == [fig |-> "<not called>", x |-> "", y |-> "", kind |-> "", hue |-> NoHue]

(* What a step of the script did: the helpers it called, the elements it   *)
(* put on the page, the figure its plot call returned, the position chosen *)
(* in its hue selectbox.                                                   *)
Event(step, calls, shown, fig, hue_index) ==
    [step |-> step, calls |-> calls, shown |-> shown, fig |-> fig,
     hue_index |-> hue_index]
NoEvent == Event("none", <<>>, <<>>, NoFig, 0)

Call(fn, df, args) == [fn |-> fn, df |-> df, args |-> args]

Shows(e, what) == InSeq(e.shown, what)

InitPage ==
    /\ df_full = [s \in Sessions |-> NoneVal]
    /\ X = [s \in Sessions |-> NoneVal]
    /\ y = [s \in Sessions |-> NoneVal]
    /\ file_name = [s \in Sessions |-> SampleName]
    /\ pipeline_configured = [s \in Sessions |-> FALSE]
    /\ uploaded_file = [s \in Sessions |-> NoneVal]
    /\ \E sample \in {Absent, File(CsvS), File(CsvEmpty)} :
          fs = [p \in Paths |-> IF p = SamplePath THEN sample ELSE Absent]
    /\ pc = [s \in Sessions |-> "idle"]
    /\ data_path = [s \in Sessions |-> NoPath]
    /\ ev = [s \in Sessions |-> NoEvent]
    /\ trigger = [s \in Sessions |-> "none"]
    /\ start = [s \in Sessions |-> Snapshot(s)]
    /\ loaded = [s \in Sessions |-> NoneVal]

IdleCore ==
    /\ core_in = [csv |-> <<>>, target |-> NoTarget]
    /\ core_out = [op |-> "none"]

Init == InitPage /\ IdleCore

----------------------------------------------------------------------------
(* The user: opens the page, uploads or replaces a file, removes the       *)
(* upload, or touches a widget.  Each starts a run of the script with the  *)
(* session's state as the last run left it.                                *)

StartRun(s, why) ==
    /\ pc[s] = "idle"
    /\ pc' = [pc EXCEPT ![s] = "sidebar"]
    /\ trigger' = [trigger EXCEPT ![s] = why]
    /\ start' = [start EXCEPT ![s] = Snapshot(s)]
    /\ ev' = [ev EXCEPT ![s] = NoEvent]
    /\ data_path' = [data_path EXCEPT ![s] = NoPath]
    /\ UNCHANGED <<df_full, X, y, file_name, pipeline_configured, fs, loaded, coreVars>>

Open(s) ==
    /\ trigger[s] = "none"
    /\ StartRun(s, "open")
    /\ UNCHANGED uploaded_file

Upload(s, name, bytes) ==
    /\ trigger[s] # "none"
    /\ uploaded_file[s] # [name |-> name, bytes |-> bytes]
    /\ StartRun(s, "upload")
    /\ uploaded_file' = [uploaded_file EXCEPT ![s] = [name |-> name, bytes |-> bytes]]

Remove(s) ==
    /\ uploaded_file[s] # NoneVal
    /\ StartRun(s, "remove")
    /\ uploaded_file' = [uploaded_file EXCEPT ![s] = NoneVal]

Interact(s) ==
    /\ trigger[s] # "none"
    /\ StartRun(s, "widget")
    /\ UNCHANGED uploaded_file

----------------------------------------------------------------------------
(* The script, top to bottom.                                              *)

(* Mutant of ResetNeeded: every upload resets the session.                 *)
ResetAlways(s) == TRUE

(* if st.session_state.file_name != uploaded_file.name                     *)
ResetNeeded(s) == file_name[s] # uploaded_file[s].name

(* The sidebar: the data source of this run.                               *)
Sidebar(s) ==
    /\ pc[s] = "sidebar"
    /\ IF uploaded_file[s] = NoneVal
       THEN /\ file_name' = [file_name EXCEPT ![s] = SampleName]
            /\ data_path' = [data_path EXCEPT ![s] = SamplePath]
            /\ ev' = [ev EXCEPT ![s] = Event("sidebar", <<>>, <<"info">>, NoFig, 0)]
            /\ UNCHANGED <<df_full, X, y, fs>>
       ELSE /\ fs' = [fs EXCEPT ![TempPath(uploaded_file[s].name)] =
                                    File(uploaded_file[s].bytes)]
            /\ data_path' = [data_path EXCEPT ![s] = TempPath(uploaded_file[s].name)]
            /\ ev' = [ev EXCEPT ![s] = Event("sidebar", <<>>, <<>>, NoFig, 0)]
            /\ IF ResetNeeded(s)
               THEN /\ df_full' = [df_full EXCEPT ![s] = NoneVal]
                    /\ X' = [X EXCEPT ![s] = NoneVal]
                    /\ y' = [y EXCEPT ![s] = NoneVal]
                    /\ file_name' = [file_name EXCEPT ![s] = uploaded_file[s].name]
               ELSE UNCHANGED <<df_full, X, y, file_name>>
    /\ pc' = [pc EXCEPT ![s] = "load"]
    /\ UNCHANGED <<pipeline_configured, uploaded_file, trigger, start, loaded, coreVars>>

(* if st.session_state.df_full is None and data_path.exists()              *)
LoadNeeded(s) == df_full[s] = NoneVal /\ fs[data_path[s]].exists

(* The initial load: one load_csv call; a failure is shown and stops the   *)
(* run.                                                                    *)
Load(s) ==
    /\ pc[s] = "load"
    /\ IF LoadNeeded(s)
       THEN LET r == load_csv(fs[data_path[s]].bytes, NoTarget)
                c == Call("load_csv", NoneVal, <<data_path[s]>>)
            IN  IF r.status = "ok"
                THEN /\ df_full' = [df_full EXCEPT ![s] = r.features]
                     /\ pipeline_configured' = [pipeline_configured EXCEPT ![s] = FALSE]
                     /\ loaded' = [loaded EXCEPT ![s] = r.features]
                     /\ ev' = [ev EXCEPT ![s] = Event("load", <<c>>, <<>>, NoFig, 0)]
                     /\ pc' = [pc EXCEPT ![s] = "dash"]
                ELSE /\ ev' = [ev EXCEPT ![s] = Event("load", <<c>>, <<"error">>, NoFig, 0)]
                     /\ pc' = [pc EXCEPT ![s] = "idle"]
                     /\ UNCHANGED <<df_full, pipeline_configured, loaded>>
       ELSE /\ ev' = [ev EXCEPT ![s] = Event("load", <<>>, <<>>, NoFig, 0)]
            /\ pc' = [pc EXCEPT ![s] = "dash"]
            /\ UNCHANGED <<df_full, pipeline_configured, loaded>>
    /\ UNCHANGED <<X, y, file_name, uploaded_file, fs, data_path, trigger, start, coreVars>>

(* Mutant of DashboardGuard: the dashboard is rendered unconditionally.    *)
DashboardUnguarded(s) == TRUE

(* if st.session_state.df_full is not None                                 *)
DashboardGuard(s) == df_full[s] # NoneVal

(* all_columns = st.session_state.df_full.columns.tolist()                 *)
all_columns(s) == IF df_full[s] = NoneVal THEN <<>> ELSE df_full[s].columns

(* st.header(f"Data Source: `{st.session_state.file_name}`")               *)
Header(s) == <<"Data Source", file_name[s]>>

Dashboard(s) ==
    /\ pc[s] = "dash"
    /\ IF DashboardGuard(s)
       THEN /\ ev' = [ev EXCEPT ![s] = Event("dash", <<>>, Header(s), NoFig, 0)]
            /\ pc' = [pc EXCEPT ![s] = "reports"]
       ELSE /\ ev' = [ev EXCEPT ![s] = Event("dash", <<>>, <<>>, NoFig, 0)]
            /\ pc' = [pc EXCEPT ![s] = "idle"]
    /\ UNCHANGED <<df_full, X, y, file_name, pipeline_configured, uploaded_file, fs,
                   data_path, trigger, start, loaded, coreVars>>

(* Tab "Data Reports & Quality".                                           *)
Reports(s, head_or_tail, n_rows_view, value_index) ==
    /\ pc[s] = "reports"
    /\ LET df == df_full[s]
           value_col == Selected(all_columns(s), value_index)
       IN  ev' = [ev EXCEPT ![s] = Event("reports",
                    <<Call("get_head_tail", df, <<n_rows_view, head_or_tail = "Head">>),
                      Call("get_column_info", df, <<>>),
                      Call("get_descriptive_stats", df, <<>>)>>
                    \o (IF Truthy(value_col)
                        THEN <<Call("get_value_counts", df, <<value_col>>)>>
                        ELSE <<>>)
                    \o <<Call("get_data_quality_report", df, <<>>)>>,
                    <<"dataframe", "dataframe", "dataframe">>
                    \o (IF Truthy(value_col) THEN <<"dataframe">> ELSE <<>>)
                    \o <<"json">>,
                    NoFig, 0)]
    /\ pc' = [pc EXCEPT ![s] = "uni"]
    /\ UNCHANGED <<df_full, X, y, file_name, pipeline_configured, uploaded_file, fs,
                   data_path, trigger, start, loaded, coreVars>>

(* hue = None if hue == "None" else hue                                    *)
HueArg(selected) == IF selected = "None" THEN NoHue ELSE selected

(* Mutant of ShowUni: the figure is drawn whatever the plot call returned. *)
ShowUniUnchecked(fig) == <<"pyplot">>

(* if fig: st.pyplot(fig) else: st.warning(...)                            *)
ShowUni(fig) == IF fig # NoneVal THEN <<"pyplot">> ELSE <<"warning">>

(* Tab "Univariate Plotting".                                              *)
Univariate(s, col_index, hue_index) ==
    /\ pc[s] = "uni"
    /\ LET df == df_full[s]
           plot_col_uni == Selected(all_columns(s), col_index)
           hue_col_uni == HueArg(Selected(<<"None">> \o all_columns(s), hue_index))
       IN  IF Truthy(plot_col_uni)
           THEN LET fig == plot_univariate_distribution(df, plot_col_uni, hue_col_uni)
                IN  ev' = [ev EXCEPT ![s] = Event("uni",
                             <<Call("plot_univariate_distribution", df,
                                    <<plot_col_uni, hue_col_uni>>)>>,
                             ShowUni(fig), fig, hue_index)]
           ELSE ev' = [ev EXCEPT ![s] = Event("uni", <<>>, <<>>, NoFig, hue_index)]
    /\ pc' = [pc EXCEPT ![s] = "corr"]
    /\ UNCHANGED <<df_full, X, y, file_name, pipeline_configured, uploaded_file, fs,
                   data_path, trigger, start, loaded, coreVars>>

(* if fig_corr: st.pyplot(fig_corr) else: st.info(...)                     *)
ShowCorr(fig) == IF fig # NoneVal THEN <<"pyplot">> ELSE <<"info">>

(* Tab "Bivariate Plotting", the correlation matrix.                       *)
Correlation(s) ==
    /\ pc[s] = "corr"
    /\ LET df == df_full[s]
           fig_corr == plot_correlation_matrix(df)
       IN  ev' = [ev EXCEPT ![s] = Event("corr",
                    <<Call("plot_correlation_matrix", df, <<>>)>>,
                    ShowCorr(fig_corr), fig_corr, 0)]
    /\ pc' = [pc EXCEPT ![s] = "bi"]
    /\ UNCHANGED <<df_full, X, y, file_name, pipeline_configured, uploaded_file, fs,
                   data_path, trigger, start, loaded, coreVars>>

(* if fig_bi: st.pyplot(fig_bi) else: st.warning(...)                      *)
ShowBi(fig) == IF fig # NoneVal THEN <<"pyplot">> ELSE <<"warning">>

(* The placeholders of the Cleaning and Modeling tabs.                     *)
Placeholders == <<"cleaning info", "modeling info">>

(* Tab "Bivariate Plotting", the customizable plot, and the rest of the    *)
(* script.                                                                 *)
Bivariate(s, type_index, x_index, y_index, hue_index, button) ==
    /\ pc[s] = "bi"
    /\ LET df == df_full[s]
           plot_type == PlotTypes[type_index]
           col_x == Selected(all_columns(s), x_index)
           col_y == Selected(all_columns(s), y_index)
           col_hue == HueArg(Selected(<<"None">> \o all_columns(s), hue_index))
       IN  IF button
           THEN LET fig_bi == plot_bivariate_analysis(df, col_x, col_y, plot_type, col_hue)
                IN  ev' = [ev EXCEPT ![s] = Event("bi",
                             <<Call("plot_bivariate_analysis", df,
                                    <<col_x, col_y, plot_type, col_hue>>)>>,
                             ShowBi(fig_bi) \o Placeholders, fig_bi, hue_index)]
           ELSE ev' = [ev EXCEPT ![s] = Event("bi", <<>>, Placeholders, NoFig, hue_index)]
    /\ pc' = [pc EXCEPT ![s] = "idle"]
    /\ UNCHANGED <<df_full, X, y, file_name, pipeline_configured, uploaded_file, fs,
                   data_path, trigger, start, loaded, coreVars>>

----------------------------------------------------------------------------
(* Spec: one user's session, every widget value.                           *)

User == "s1"

Next ==
    \/ Open(User)
    \/ \E name \in UploadNames, bytes \in UploadBytes : Upload(User, name, bytes)
    \/ Remove(User)
    \/ Interact(User)
    \/ Sidebar(User)
    \/ Load(User)
    \/ Dashboard(User)
    \/ \E h \in {"Head", "Tail"}, n \in SliderMin..SliderMax,
          v \in Choices(all_columns(User)) : Reports(User, h, n, v)
    \/ \E c \in Choices(all_columns(User)),
          h \in Choices(<<"None">> \o all_columns(User)) : Univariate(User, c, h)
    \/ Correlation(User)
    \/ \E t \in 1..Len(PlotTypes), cx \in Choices(all_columns(User)),
          cy \in Choices(all_columns(User)),
          h \in Choices(<<"None">> \o all_columns(User)),
          b \in BOOLEAN : Bivariate(User, t, cx, cy, h, b)

Spec == Init /\ [][Next]_vars

(* SpecSessions: two sessions over the one working directory, the widgets  *)
(* left at their defaults (first option, slider at 5, button not pressed). *)
NextSessions ==
    \E s \in Sessions :
        \/ Open(s)
        \/ \E name \in UploadNames, bytes \in {CsvA, CsvN} : Upload(s, name, bytes)
        \/ Remove(s)
        \/ Sidebar(s)
        \/ Load(s)
        \/ Dashboard(s)
        \/ Reports(s, "Head", SliderDefault, 1)
        \/ Univariate(s, 1, 1)
        \/ Correlation(s)
        \/ Bivariate(s, 1, 1, 1, 1, FALSE)

SpecSessions == Init /\ [][NextSessions]_vars

----------------------------------------------------------------------------
(* SpecCore: load, profile and quality_report applied to every CSV file of *)
(* at most MaxCols columns and MaxRows data rows.                          *)

ColumnNames == {"a", "b", "None"}
TargetNames == ColumnNames \cup {"nonexistent"}
Fields == {"", "1"}

Headers ==
    {h \in UNION {[1..c -> ColumnNames] : c \in 1..MaxCols} :
        \A i, j \in 1..Len(h) : h[i] = h[j] => i = j}

RowsOf(c) == UNION {[1..r -> [1..c -> Fields]] : r \in 0..MaxRows}

CsvInputs ==
    {<<>>}
    \cup UNION {{<<h>> \o rows : rows \in RowsOf(Len(h))} : h \in Headers}
    \cup {<<h, h \o <<"1">> >> : h \in Headers}
    \cup {<<h, <<"1">> >> : h \in Headers}

InitCore ==
    /\ InitPage
    /\ fs[SamplePath] = Absent
    /\ core_in \in [csv : CsvInputs, target : {NoTarget} \cup TargetNames]
    /\ core_out = [op |-> "none"]

CoreLoad ==
    /\ core_out.op = "none"
    /\ core_out' = [op |-> "load", res |-> load_csv(core_in.csv, core_in.target)]
    /\ UNCHANGED <<core_in, pageVars>>

CoreProfile ==
    /\ core_out.op = "none"
    /\ ~Malformed(core_in.csv)
    /\ core_in.target = NoTarget
    /\ LET t == load_csv(core_in.csv, NoTarget).features
       IN  core_out' = [op |-> "profile", table |-> t,
                        profile |-> get_column_info(t),
                        quality |-> get_data_quality_report(t)]
    /\ UNCHANGED <<core_in, pageVars>>

NextCore == CoreLoad \/ CoreProfile

SpecCore == InitCore /\ [][NextCore]_vars

----------------------------------------------------------------------------
(* Properties of the core (SpecCore).                                      *)

CoreTable == ParseCSV(core_in.csv)

LoadedWithColumn ==
    /\ core_out.op = "load"
    /\ ~Malformed(core_in.csv)
    /\ InSeq(CoreTable.columns, core_in.target)

LoadedWithUnknownColumn ==
    /\ core_out.op = "load"
    /\ ~Malformed(core_in.csv)
    /\ core_in.target # NoTarget
    /\ ~InSeq(CoreTable.columns, core_in.target)

(* C2: for a target_column that is not a column of the table, load fails   *)
(* with ColumnNotFoundError and returns neither features nor target.       *)
C2_UnknownTargetFails ==
    LoadedWithUnknownColumn =>
        /\ core_out.res.status = "ColumnNotFoundError"
        /\ core_out.res.features = NoneVal
        /\ core_out.res.target = NoneVal

C2_Witness ==
    /\ LoadedWithUnknownColumn
    /\ core_in.target = "nonexistent"
    /\ Len(CoreTable.rows) = 2
    /\ core_out.res.status = "ColumnNotFoundError"

(* C8: for every table, zero rows included, the profile's missing_count    *)
(* summed over the columns equals quality_report.total_missing.            *)
C8_MissingCountsAgree ==
    core_out.op = "profile" =>
        SumSeq([k \in 1..Len(core_out.profile) |-> core_out.profile[k].missing_count])
            = core_out.quality.total_missing

C8_Witness ==
    /\ core_out.op = "profile"
    /\ Len(core_out.table.columns) = 2
    /\ Len(core_out.table.rows) = 2
    /\ core_out.profile[1].missing_count = 2
    /\ core_out.profile[2].missing_count = 1
    /\ core_out.quality.total_missing = 3

----------------------------------------------------------------------------
(* Properties of the page (Spec, SpecSessions).                            *)

Helpers ==
    {"get_head_tail", "get_column_info", "get_descriptive_stats", "get_value_counts",
     "get_data_quality_report", "plot_univariate_distribution",
     "plot_correlation_matrix", "plot_bivariate_analysis"}

(* C3: every helper call of a run gets the session's df_full, which is not *)
(* None and is the table load_csv last returned to the session.            *)
C3_HelpersGetLoadedTable ==
    \A s \in Sessions : \A i \in 1..Len(ev[s].calls) :
        ev[s].calls[i].fn \in Helpers =>
            /\ ev[s].calls[i].df # NoneVal
            /\ ev[s].calls[i].df = df_full[s]
            /\ ev[s].calls[i].df = loaded[s]

C3_Witness ==
    \E s \in Sessions :
        /\ ev[s].step = "reports"
        /\ Len(ev[s].calls) = 5
        /\ ev[s].calls[4].fn = "get_value_counts"
        /\ df_full[s] = ParseCSV(CsvA)

(* C4: a run that reaches the load step with df_full None and a data file  *)
(* that is missing or not parseable shows an error, calls load_csv at most *)
(* once, and ends there with df_full still None.                           *)
C4_LoadFailureSurfaced ==
    [][\A s \in Sessions :
          ( /\ pc[s] = "load"
            /\ pc'[s] # "load"
            /\ df_full[s] = NoneVal
            /\ \/ ~fs[data_path[s]].exists
               \/ Malformed(fs[data_path[s]].bytes) )
          => /\ Shows(ev'[s], "error")
             /\ Len(ev'[s].calls) <= 1
             /\ pc'[s] = "idle"
             /\ df_full'[s] = NoneVal]_vars

AfterPlot(s) ==
    CASE pc[s] = "uni"  -> pc'[s] = "corr" /\ Shows(ev'[s], "warning")
      [] pc[s] = "corr" -> pc'[s] = "bi" /\ Shows(ev'[s], "info")
      [] pc[s] = "bi"   -> /\ pc'[s] = "idle"
                           /\ Shows(ev'[s], "warning")
                           /\ Shows(ev'[s], "cleaning info")
                           /\ Shows(ev'[s], "modeling info")

(* C5: when a plot function returns the not-renderable sentinel, the step  *)
(* shows a message and no plot, the script goes on to what follows the     *)
(* plot, and df_full, X, y, file_name and pipeline_configured are          *)
(* unchanged.                                                              *)
C5_SentinelDegrades ==
    [][\A s \in Sessions :
          ( /\ pc[s] \in {"uni", "corr", "bi"}
            /\ pc'[s] # pc[s]
            /\ ev'[s].fig = NoneVal )
          => /\ AfterPlot(s)
             /\ ~Shows(ev'[s], "pyplot")
             /\ Snapshot(s)' = Snapshot(s)]_vars

C5_Witness ==
    \E s \in Sessions :
        /\ ev[s].step = "uni"
        /\ ev[s].fig = NoneVal
        /\ Len(ev[s].calls) = 1
        /\ pc[s] = "corr"

NewNameUploaded(s) ==
    uploaded_file[s] # NoneVal /\ uploaded_file[s].name # start[s].file_name

(* C6: a run that starts with df_full set, and has no uploaded file whose  *)
(* name differs from the session's file_name, neither changes df_full nor  *)
(* calls load_csv; a run started by a widget changes none of df_full, X,   *)
(* y, file_name, pipeline_configured.                                      *)
C6_TableImmutable ==
    \A s \in Sessions :
        start[s].df_full # NoneVal =>
            /\ ~NewNameUploaded(s) =>
                   /\ df_full[s] = start[s].df_full
                   /\ ev[s].step = "load" => ev[s].calls = <<>>
            /\ trigger[s] = "widget" => Snapshot(s) = start[s]

C6_Witness ==
    \E s \in Sessions :
        /\ start[s].df_full # NoneVal
        /\ trigger[s] = "upload"
        /\ ~NewNameUploaded(s)
        /\ uploaded_file[s].bytes = CsvN
        /\ start[s].df_full = ParseCSV(CsvA)
        /\ pc[s] = "idle"
        /\ ev[s].step = "bi"

(* C7: the table a session stores in df_full is the one parsed from the    *)
(* bytes that session uploaded.                                            *)
C7_SessionsIsolated ==
    \A s \in Sessions :
        ( /\ ev[s].step = "load"
          /\ Len(ev[s].calls) = 1
          /\ ~Shows(ev[s], "error")
          /\ uploaded_file[s] # NoneVal )
        => df_full[s] = ParseCSV(uploaded_file[s].bytes)

(* C9: the plot function gets hue = h when the user selected column h in   *)
(* the hue selector, and hue = None only when the user selected the no-hue *)
(* option (the first of the list).                                         *)
C9_HuePassedAsSelected ==
    \A s \in Sessions :
        (ev[s].step \in {"uni", "bi"} /\ ev[s].calls # <<>>) =>
            LET args == ev[s].calls[1].args
                hue == args[Len(args)]
                i == ev[s].hue_index
            IN  /\ i > 1 => hue = df_full[s].columns[i - 1]
                /\ hue = NoHue => i = 1

(* C10: whenever the dashboard is rendered, df_full is the table parsed    *)
(* from the data source selected in that run (the uploaded file's bytes,   *)
(* else sample_data.csv) and the header names that source.                 *)
C10_DashboardShowsSelectedSource ==
    \A s \in Sessions :
        (ev[s].step = "dash" /\ ev[s].shown # <<>>) =>
            LET up == uploaded_file[s]
                src == IF up # NoneVal THEN up.bytes ELSE fs[SamplePath].bytes
            IN  /\ ev[s].shown[2] = (IF up # NoneVal THEN up.name ELSE SampleName)
                /\ ~Malformed(src)
                /\ df_full[s] = ParseCSV(src)

====
